---- MODULE Spec2Model ----
(***************************************************************************)
(* Model of the ai_db_orm repository layer (src/ai_db_orm/repos.py,        *)
(* models.py, enums.py).  Every shard table is a set of rows (records).    *)
(* A repository method that makes several database round trips takes one   *)
(* step for each: the SELECT, the commit and the refresh of the two        *)
(* get-or-create methods, the commit and the refresh of a create_* method, *)
(* the building of a chat message (which reads the time) before them, the  *)
(* two reads of the lookup by collection.  Steps of other calls fall       *)
(* between them.  An update_* method is one step: its SELECT and its       *)
(* UPDATE of the one column it assigns run in one session, and no method   *)
(* deletes a row or changes a key in between.                              *)
(*                                                                         *)
(* An optional row (the result of .first()) is a set holding at most one   *)
(* row: {} stands for Python's None.                                       *)
(***************************************************************************)
EXTENDS Integers, FiniteSets, Sequences, Bags, TLC

\* ------------------------------------------------------------------ bounds
MaxCalls == 2        \* calls each caller of a get-or-create method makes
MaxResources == 2    \* rows of the resources table
MaxRows == 3         \* rows of the resources table and the tables referring to it, together
MaxChatResources == 3 \* rows of the chat_resources table
MaxMessages == 42    \* rows of the chat_messages table
MaxIrregular == 1    \* messages that are not the usual one, calls that overlap (see Irregular, Overlapping)

\* The concurrent callers of the get-or-create methods, and the identities
\* (uuid.UUID values) a caller can pass in from outside.
Callers == {"c1", "c2"}
Ids == {1, 2}

VARIABLES
    nextId,               \* number of uuid.uuid4() values drawn so far
    ret,                  \* outcome of the last create_* / update_* / lookup call
    call,                 \* bag of the create_* and lookup calls in flight, each at its next step
    users,                \* Users shard: table users
    organizations,        \* Organization shard: table organizations
    organization_users,   \* Organization shard: table organization_users
    pc,                   \* per caller: position inside get_default_*
    loc,                  \* per caller: the local variables of its call
    calls,                \* per caller: calls started
    returned,             \* what the get_default_* calls returned, in order
    resources,            \* Resources shard: table resources
    collection_resources, \* Collection shard: table collection_resources
    files,                \* Files shard: table files
    meetings,             \* Meetings shard: table meetings
    meeting_recordings,   \* Meetings shard: table meeting_recordings
    websites,             \* Website shard: table websites
    chats,                \* Chat shard: table chats
    chat_resources,       \* Chat shard: table chat_resources
    chat_messages,        \* Chat shard: table chat_messages
    clock                 \* what datetime.now() returns

defaultVars == <<users, organizations, organization_users, pc, loc, calls, returned>>
entityVars == <<resources, collection_resources, files, meetings, meeting_recordings, websites>>
chatVars == <<chats, chat_resources, chat_messages, clock>>
vars == <<nextId, ret, call, defaultVars, entityVars, chatVars>>

\* uuid.uuid4(): a value no caller supplies and no earlier draw produced.
uuid4 == Cardinality(Ids) + nextId + 1

\* ------------------------------------------------------------------ rows
\* Every row carries the __tablename__ of its class (models.py 31-37).
User(user_id, first_name, last_name) ==
    [tablename |-> "users", user_id |-> user_id, first_name |-> first_name, last_name |-> last_name]

Organization(organization_id, name) ==
    [tablename |-> "organizations", organization_id |-> organization_id, name |-> name]

OrganizationUser(organization_id, user_id) ==
    [tablename |-> "organization_users", organization_id |-> organization_id, user_id |-> user_id]

\* The primary key of a row, by its table (models.py: the primary_key=True
\* columns; BaseOrganizationTable makes organization_id part of the key of
\* every table but users).
PrimaryKey(r) ==
    CASE r.tablename = "users" -> <<r.user_id>>
      [] r.tablename = "organizations" -> <<r.organization_id>>
      [] r.tablename = "organization_users" -> <<r.organization_id, r.user_id>>
      [] r.tablename = "resources" -> <<r.organization_id, r.resource_id>>
      [] r.tablename = "collection_resources" ->
            <<r.organization_id, r.collection_id, r.resource_id>>
      [] r.tablename = "files" -> <<r.organization_id, r.file_id>>
      [] r.tablename = "meetings" -> <<r.organization_id, r.meeting_id>>
      [] r.tablename = "meeting_recordings" ->
            <<r.organization_id, r.meeting_id, r.recording_id>>
      [] r.tablename = "websites" -> <<r.organization_id, r.website_id>>
      [] r.tablename = "chats" -> <<r.organization_id, r.chat_id>>
      [] r.tablename = "chat_resources" -> <<r.organization_id, r.chat_id, r.resource_id>>
      [] r.tablename = "chat_messages" -> <<r.organization_id, r.chat_id, r.message_id>>

\* ------------------------------------------------------------------ commit
\* A commit that raises on a conflict and yet overwrites the stored row.
CommitKeepsConflictingWrite(table, obj) ==
    IF \E r \in table : PrimaryKey(r) = PrimaryKey(obj)
    THEN [ok |-> FALSE, rows |-> {r \in table : PrimaryKey(r) # PrimaryKey(obj)} \cup {obj}]
    ELSE [ok |-> TRUE, rows |-> table \cup {obj}]

\* BaseRepo._commit_object (CollectionRepo overrides it with the same body),
\* up to its commit: session.add + commit of a new object is an INSERT.  It
\* fails on a primary-key conflict (the exception leaves the with-block, the
\* session is closed without a commit, nothing is written); otherwise the row
\* is stored.  The result is the outcome and the table afterwards.  The
\* session.refresh that follows a successful commit is a transaction of its
\* own: _commit_object_refresh below.
_commit_object(table, obj) ==
    IF LET key == PrimaryKey(obj) IN \E r \in table : PrimaryKey(r) = key
    THEN [ok |-> FALSE, rows |-> table]
    ELSE [ok |-> TRUE, rows |-> table \cup {obj}]

\* The tables of every shard.
AllTables ==
    <<users, organizations, organization_users, resources, collection_resources, files,
      meetings, meeting_recordings, websites, chats, chat_resources, chat_messages>>

\* The create_* methods, which commit a new object, and the table of each.
CreateOps ==
    {"create_resource", "create_collection_resource", "create_file_for_resource",
     "create_file_for_meeting_recording", "create_meeting", "create_meeting_mixed_recording",
     "create_website", "create_chat", "add_resource_to_chat", "create_chat_message"}

TableOf(op) ==
    CASE op = "create_resource" -> resources
      [] op = "create_collection_resource" -> collection_resources
      [] op \in {"create_file_for_resource", "create_file_for_meeting_recording"} -> files
      [] op = "create_meeting" -> meetings
      [] op = "create_meeting_mixed_recording" -> meeting_recordings
      [] op = "create_website" -> websites
      [] op = "create_chat" -> chats
      [] op = "add_resource_to_chat" -> chat_resources
      [] op = "create_chat_message" -> chat_messages
      [] OTHER -> {}

\* ------------------------------------------------------------------ get-or-create
\* A select for a last_name other than the one the created row carries.
SelectUserOldSentinel(table) ==
    {r \in table : r.first_name = "Default AI" /\ r.last_name = "service user"}

\* select(User).where(first_name == "Default AI", last_name == "service user 2")
SelectDefaultUser(table) ==
    {r \in table : r.first_name = "Default AI" /\ r.last_name = "service user 2"}

\* select(Organization).where(name == "Default AI service org 2")
SelectDefaultOrganization(table) ==
    {r \in table : r.name = "Default AI service org 2"}

\* select(OrganizationUser).where(user_id == user.user_id)
SelectOrganizationUser(table, user_id) ==
    {r \in table : r.user_id = user_id}

\* .first() of a statement without ORDER BY: no row, or any one matching row.
First(rows) == IF rows = {} THEN {{}} ELSE {{r} : r \in rows}

\* The locals of one get_default_* call.  missed: the tables whose SELECT found
\* no row in this call (the branches "if not user", "if not organization", ...).
NoLocals == [op |-> "none", user |-> {}, organization |-> {}, organization_user |-> {},
             missed |-> {}]

InitDefault ==
    /\ users = {}
    /\ organizations = {}
    /\ organization_users = {}
    /\ pc = [p \in Callers |-> "idle"]
    /\ loc = [p \in Callers |-> NoLocals]
    /\ calls = [p \in Callers |-> 0]
    /\ returned = <<>>

\* A caller enters UserRepo.get_default_user.
call_get_default_user(p) ==
    /\ pc[p] = "idle"
    /\ calls[p] < MaxCalls
    /\ calls' = [calls EXCEPT ![p] = @ + 1]
    /\ loc' = [loc EXCEPT ![p] = [NoLocals EXCEPT !.op = "user"]]
    /\ pc' = [pc EXCEPT ![p] = "user_select"]
    /\ UNCHANGED <<nextId, users, organizations, organization_users, returned, ret, call, entityVars, chatVars>>

\* A caller enters OrganizationRepo.get_default_organization.
call_get_default_organization(p) ==
    /\ pc[p] = "idle"
    /\ calls[p] < MaxCalls
    /\ calls' = [calls EXCEPT ![p] = @ + 1]
    /\ loc' = [loc EXCEPT ![p] = [NoLocals EXCEPT !.op = "organization"]]
    /\ pc' = [pc EXCEPT ![p] = "organization_select"]
    /\ UNCHANGED <<nextId, users, organizations, organization_users, returned, ret, call, entityVars, chatVars>>

\* Where a caller goes once get_default_user has its user: back to the caller
\* of get_default_user, or on to line 87 of get_default_organization.
AfterUser(p) == IF loc[p].op = "user" THEN "return" ELSE "organization_user_select"

\* repos.py 63-65: the SELECT of get_default_user.
get_default_user_select(p) ==
    /\ pc[p] = "user_select"
    /\ \E u \in First(SelectDefaultUser(users)) :
        /\ loc' = [loc EXCEPT ![p].user = u,
                              ![p].missed = IF u = {} THEN @ \cup {"user"} ELSE @]
        /\ pc' = [pc EXCEPT ![p] = IF u = {} THEN "user_commit" ELSE AfterUser(p)]
    /\ UNCHANGED <<nextId, users, organizations, organization_users, calls, returned, ret, call, entityVars, chatVars>>

\* A get-or-create that looks again inside the inserting transaction and
\* takes the row another caller stored in the meantime.
get_default_user_create_if_absent(p) ==
    /\ pc[p] = "user_commit"
    /\ LET found == SelectDefaultUser(users)
           obj == User(uuid4, "Default AI", "service user 2")
           res == _commit_object(users, obj)
       IN  IF found # {}
           THEN /\ \E u \in found : loc' = [loc EXCEPT ![p].user = {u}]
                /\ UNCHANGED <<users, nextId>>
           ELSE /\ users' = res.rows
                /\ nextId' = nextId + 1
                /\ loc' = [loc EXCEPT ![p].user = {obj}]
    /\ pc' = [pc EXCEPT ![p] = "user_refresh"]
    /\ UNCHANGED <<organizations, organization_users, calls, returned, ret, call, entityVars, chatVars>>

\* repos.py 66-67, up to the commit: the INSERT of get_default_user, in a
\* session of its own.  user_id is a fresh uuid4, so the INSERT meets no
\* primary-key conflict.
get_default_user_create(p) ==
    /\ pc[p] = "user_commit"
    /\ LET obj == User(uuid4, "Default AI", "service user 2")
           res == _commit_object(users, obj)
       IN  /\ res.ok
           /\ users' = res.rows
           /\ nextId' = nextId + 1
           /\ loc' = [loc EXCEPT ![p].user = {obj}]
    /\ pc' = [pc EXCEPT ![p] = "user_refresh"]
    /\ UNCHANGED <<organizations, organization_users, calls, returned, ret, call, entityVars, chatVars>>

\* repos.py 50-52 for the object of one get_default_* call: session.refresh
\* reads the row of the object's primary key, in a transaction of its own.
Refreshed(table, objs) == {r \in table : \E obj \in objs : PrimaryKey(r) = PrimaryKey(obj)}

\* repos.py 67, after the commit: the refresh of the new user.
get_default_user_refresh(p) ==
    /\ pc[p] = "user_refresh"
    /\ loc' = [loc EXCEPT ![p].user = Refreshed(users, loc[p].user)]
    /\ pc' = [pc EXCEPT ![p] = AfterUser(p)]
    /\ UNCHANGED <<nextId, users, organizations, organization_users, calls, returned, ret, call, entityVars, chatVars>>

\* repos.py 80-82: the SELECT of get_default_organization.
get_default_organization_select(p) ==
    /\ pc[p] = "organization_select"
    /\ \E o \in First(SelectDefaultOrganization(organizations)) :
        /\ loc' = [loc EXCEPT ![p].organization = o,
                              ![p].missed = IF o = {} THEN @ \cup {"organization"} ELSE @]
        /\ pc' = [pc EXCEPT ![p] = IF o = {} THEN "organization_commit" ELSE "user_select"]
    /\ UNCHANGED <<nextId, users, organizations, organization_users, calls, returned, ret, call, entityVars, chatVars>>

\* repos.py 83-84, up to the commit: the INSERT of the default organization
\* (fresh uuid4 key).
get_default_organization_create(p) ==
    /\ pc[p] = "organization_commit"
    /\ LET obj == Organization(uuid4, "Default AI service org 2")
           res == _commit_object(organizations, obj)
       IN  /\ res.ok
           /\ organizations' = res.rows
           /\ nextId' = nextId + 1
           /\ loc' = [loc EXCEPT ![p].organization = {obj}]
    /\ pc' = [pc EXCEPT ![p] = "organization_refresh"]
    /\ UNCHANGED <<users, organization_users, calls, returned, ret, call, entityVars, chatVars>>

\* repos.py 84, after the commit: the refresh of the new organization.
get_default_organization_refresh(p) ==
    /\ pc[p] = "organization_refresh"
    /\ loc' = [loc EXCEPT ![p].organization = Refreshed(organizations, loc[p].organization)]
    /\ pc' = [pc EXCEPT ![p] = "user_select"]
    /\ UNCHANGED <<nextId, users, organizations, organization_users, calls, returned, ret, call, entityVars, chatVars>>

\* repos.py 87-89: the SELECT of the membership row, by user_id alone.
get_default_organization_select_member(p) ==
    /\ pc[p] = "organization_user_select"
    /\ \E u \in loc[p].user :
       \E m \in First(SelectOrganizationUser(organization_users, u.user_id)) :
        /\ loc' = [loc EXCEPT ![p].organization_user = m,
                              ![p].missed = IF m = {} THEN @ \cup {"organization_user"} ELSE @]
        /\ pc' = [pc EXCEPT ![p] = IF m = {} THEN "organization_user_commit" ELSE "return"]
    /\ UNCHANGED <<nextId, users, organizations, organization_users, calls, returned, ret, call, entityVars, chatVars>>

\* repos.py 90-91, up to the commit: the INSERT of the membership row.  Its key
\* (organization_id, user_id) can be taken by now: another caller that chose
\* the same organization and user may have stored it since the SELECT.  The
\* INSERT then raises and the call ends without returning.
get_default_organization_create_member(p) ==
    /\ pc[p] = "organization_user_commit"
    /\ \E u \in loc[p].user : \E o \in loc[p].organization :
       LET obj == OrganizationUser(o.organization_id, u.user_id)
           res == _commit_object(organization_users, obj)
       IN  /\ organization_users' = res.rows
           /\ loc' = [loc EXCEPT ![p].organization_user = IF res.ok THEN {obj} ELSE {}]
           /\ pc' = [pc EXCEPT ![p] = IF res.ok THEN "organization_user_refresh" ELSE "raised"]
    /\ UNCHANGED <<nextId, users, organizations, calls, returned, ret, call, entityVars, chatVars>>

\* repos.py 91, after the commit: the refresh of the new membership row.
get_default_organization_refresh_member(p) ==
    /\ pc[p] = "organization_user_refresh"
    /\ loc' = [loc EXCEPT ![p].organization_user =
                               Refreshed(organization_users, loc[p].organization_user)]
    /\ pc' = [pc EXCEPT ![p] = "return"]
    /\ UNCHANGED <<nextId, users, organizations, organization_users, calls, returned, ret, call, entityVars, chatVars>>

\* The exception of a failed INSERT reaches the caller, who may call again.
get_default_raise(p) ==
    /\ pc[p] = "raised"
    /\ pc' = [pc EXCEPT ![p] = "idle"]
    /\ loc' = [loc EXCEPT ![p].op = "none"]
    /\ UNCHANGED <<nextId, users, organizations, organization_users, calls, returned, ret, call, entityVars, chatVars>>

\* repos.py 69 and 93: the call returns its user, respectively its organization.
get_default_return(p) ==
    /\ pc[p] = "return"
    /\ \E u \in loc[p].user :
        IF loc[p].op = "user"
        THEN returned' = Append(returned, [op |-> "user", id |-> u.user_id])
        ELSE \E o \in loc[p].organization :
                returned' = Append(returned, [op |-> "organization", id |-> o.organization_id])
    /\ pc' = [pc EXCEPT ![p] = "idle"]
    /\ UNCHANGED <<nextId, users, organizations, organization_users, loc, calls, ret, call, entityVars, chatVars>>

NextDefault ==
    \E p \in Callers :
        \/ call_get_default_user(p)
        \/ call_get_default_organization(p)
        \/ get_default_user_select(p)
        \/ get_default_user_create(p)
        \/ get_default_user_refresh(p)
        \/ get_default_organization_select(p)
        \/ get_default_organization_create(p)
        \/ get_default_organization_refresh(p)
        \/ get_default_organization_select_member(p)
        \/ get_default_organization_create_member(p)
        \/ get_default_organization_refresh_member(p)
        \/ get_default_raise(p)
        \/ get_default_return(p)

\* Callers one after the other: a call starts only when no call is in progress.
NoCallInProgress == \A q \in Callers : pc[q] = "idle"

NextSequential ==
    \E p \in Callers :
        \/ NoCallInProgress /\ call_get_default_user(p)
        \/ NoCallInProgress /\ call_get_default_organization(p)
        \/ get_default_user_select(p)
        \/ get_default_user_create(p)
        \/ get_default_user_refresh(p)
        \/ get_default_organization_select(p)
        \/ get_default_organization_create(p)
        \/ get_default_organization_refresh(p)
        \/ get_default_organization_select_member(p)
        \/ get_default_organization_create_member(p)
        \/ get_default_organization_refresh_member(p)
        \/ get_default_return(p)

\* ------------------------------------------------------------------ entity rows
\* models.py: only the columns the repositories read or write are kept; the
\* columns with a constant default ("doesnt matter", color_code, ...) and the
\* created_at of the tables no query orders by are left out.
NoneValue == "None"

\* enums.py 4-7 and 10-13
ResourceType == {"file", "meeting", "website"}
ResourceStatus == {"pending", "failed", "available"}

Resource(organization_id, resource_id, source_entity_type, source_entity_id) ==
    [tablename |-> "resources", organization_id |-> organization_id, resource_id |-> resource_id,
     source_entity_type |-> source_entity_type, source_entity_id |-> source_entity_id,
     status |-> "pending", name |-> "", ai_summary |-> ""]

CollectionResource(organization_id, collection_id, resource_id) ==
    [tablename |-> "collection_resources", organization_id |-> organization_id, collection_id |-> collection_id,
     resource_id |-> resource_id]

File(organization_id, resource_id, file_id, name, path, mime_type, user_id) ==
    [tablename |-> "files", organization_id |-> organization_id, file_id |-> file_id, resource_id |-> resource_id,
     name |-> name, path |-> path, mime_type |-> mime_type, user_id |-> user_id]

Meeting(organization_id, resource_id, user_id, meeting_id) ==
    [tablename |-> "meetings", organization_id |-> organization_id, meeting_id |-> meeting_id,
     resource_id |-> resource_id, user_id |-> user_id, transcriptions |-> NoneValue]

MeetingRecording(organization_id, meeting_id, recording_id, file_id, type, subtype) ==
    [tablename |-> "meeting_recordings", organization_id |-> organization_id, meeting_id |-> meeting_id,
     recording_id |-> recording_id, file_id |-> file_id, type |-> type,
     subtype |-> subtype, transcriptions |-> NoneValue]

Website(organization_id, resource_id, user_id, name, website_id, url) ==
    [tablename |-> "websites", organization_id |-> organization_id, website_id |-> website_id,
     resource_id |-> resource_id, user_id |-> user_id, name |-> name, url |-> url,
     parsed_urls |-> NoneValue]

\* What a call hands back: the entity it returns, or the exception it raises.
Returns(op, ok, val) == [op |-> op, ok |-> ok, val |-> IF ok THEN val ELSE {}]

\* The calls in flight: a call that has made one of its database round
\* trips and has another to make.  Calls of different callers overlap
\* freely: a caller makes one call at a time, so there are at most as many
\* as there are callers.  Two callers can be at the same step of equal calls.
InFlight == BagToSet(call)
CallerFree == BagCardinality(call) < Cardinality(Callers)
Enter(x) == call (+) SetToBag({x})
Leave(x) == call (-) SetToBag({x})

\* repos.py 47-49 seen from the caller: a failed commit raises at once; after
\* a successful one the call goes on to session.refresh, and until then it
\* is in flight.
AfterCommit(op, ok, obj) ==
    /\ CallerFree
    /\ IF ok
       THEN call' = Enter([op |-> op, step |-> "refresh", obj |-> obj]) /\ ret' = ret
       ELSE call' = call /\ ret' = Returns(op, FALSE, {})

\* repos.py 50-52: session.refresh(obj) reads the row of the object's primary
\* key in a transaction of its own, after the commit, and the object is
\* returned with the columns the row has then.
_commit_object_refresh ==
    \E x \in InFlight :
        /\ x.step = "refresh"
        /\ ret' = Returns(x.op, TRUE,
                          {r \in TableOf(x.op) : PrimaryKey(r) = PrimaryKey(x.obj)})
        /\ call' = Leave(x)
        /\ UNCHANGED <<nextId, defaultVars, entityVars, chatVars>>

\* What an update_* method hands back: commit() expires every attribute of
\* the instance (expire_on_commit is left at its default), nothing refreshes
\* it, and the return follows the with-block, so the object is detached and
\* none of its columns can be read (DetachedInstanceError).
Expired(r) == [tablename |-> r.tablename, expired |-> TRUE]

\* The exception an update raises when .first() gave None: the assignment
\* "resource.status = status" on None is an AttributeError.
Raises(op, error) == [op |-> op, ok |-> FALSE, val |-> {}, error |-> error]

\* Every order of a set of rows: what .all() can return for a statement
\* without ORDER BY.
RECURSIVE AnyOrder(_)
AnyOrder(rows) ==
    IF rows = {} THEN {<<>>}
    ELSE UNION {{<<m>> \o rest : rest \in AnyOrder(rows \ {m})} : m \in rows}

\* ------------------------------------------------------------------ ResourceRepo
\* repos.py 137-141
get_resource(resource_id) ==
    First({r \in resources : r.resource_id = resource_id})

\* repos.py 143-150
create_resource(organization_id, source_entity_type, source_entity_id) ==
    LET obj == Resource(organization_id, uuid4, source_entity_type, source_entity_id)
        res == _commit_object(resources, obj)
    IN  /\ resources' = res.rows
        /\ nextId' = nextId + 1
        /\ AfterCommit("create_resource", res.ok, obj)
        /\ UNCHANGED <<collection_resources, files, meetings, meeting_recordings, websites,
                       defaultVars, chatVars>>

\* An update that rewrites the status of every row of the table.
update_resource_status_all_rows(resource_id, status) ==
    \E found \in get_resource(resource_id) :
        /\ IF found = {}
           THEN /\ ret' = Raises("update_resource_status", "AttributeError")
                /\ UNCHANGED resources
           ELSE /\ resources' = {[r EXCEPT !.status = status] : r \in resources}
                /\ ret' = Returns("update_resource_status", TRUE,
                                  {Expired(r) : r \in found})
        /\ UNCHANGED <<nextId, call, collection_resources, files, meetings, meeting_recordings,
                       websites, defaultVars, chatVars>>

\* repos.py 152-160: SELECT, assignment and UPDATE in one session.  With no
\* row, .first() is None and the assignment raises before anything is written.
\* The returned object is the instance, expired by the commit and detached.
update_resource_status(resource_id, status) ==
    \E found \in get_resource(resource_id) :
        /\ IF found = {}
           THEN /\ ret' = Raises("update_resource_status", "AttributeError")
                /\ UNCHANGED resources
           ELSE /\ resources' = (resources \ found) \cup
                                {[r EXCEPT !.status = status] : r \in found}
                /\ ret' = Returns("update_resource_status", TRUE,
                                  {Expired(r) : r \in found})
        /\ UNCHANGED <<nextId, call, collection_resources, files, meetings, meeting_recordings,
                       websites, defaultVars, chatVars>>

\* repos.py 171-179
update_resource_ai_summary(resource_id, ai_summary) ==
    \E found \in get_resource(resource_id) :
        /\ IF found = {}
           THEN /\ ret' = Raises("update_resource_ai_summary", "AttributeError")
                /\ UNCHANGED resources
           ELSE /\ resources' = (resources \ found) \cup
                                {[r EXCEPT !.ai_summary = ai_summary] : r \in found}
                /\ ret' = Returns("update_resource_ai_summary", TRUE,
                                  {Expired(r) : r \in found})
        /\ UNCHANGED <<nextId, call, collection_resources, files, meetings, meeting_recordings,
                       websites, defaultVars, chatVars>>

\* ------------------------------------------------------------------ CollectionRepo
\* repos.py 115-121
create_collection_resource(collection_id, organization_id, resource_id) ==
    LET obj == CollectionResource(organization_id, collection_id, resource_id)
        res == _commit_object(collection_resources, obj)
    IN  /\ collection_resources' = res.rows
        /\ AfterCommit("create_collection_resource", res.ok, obj)
        /\ UNCHANGED <<nextId, resources, files, meetings, meeting_recordings, websites,
                       defaultVars, chatVars>>

\* repos.py 123-128: the association rows of the collection, in an order the
\* statement does not fix.
get_collection_resources(collection_id) ==
    AnyOrder({cr \in collection_resources : cr.collection_id = collection_id})

\* repos.py 162-165: the first of the two reads, made through CollectionRepo
\* on the collections database; the second follows in a round trip of its own.
get_resources_by_collection_id(collection_id) ==
    \E found \in get_collection_resources(collection_id) :
        /\ CallerFree
        /\ call' = Enter([op |-> "get_resources_by_collection_id", step |-> "select",
                          collection_id |-> collection_id,
                          collection_resources |-> found])
        /\ UNCHANGED <<nextId, ret, entityVars, defaultVars, chatVars>>

\* A second read that resolves every association row of the collection.
select_resources_of_all_associations ==
    \E x \in InFlight :
        /\ x.step = "select"
        /\ LET found == x.collection_resources
           IN  IF found = <<>>
               THEN ret' = Raises("get_resources_by_collection_id", "IndexError")
               ELSE ret' = Returns("get_resources_by_collection_id", TRUE,
                                   {r \in resources : \E i \in 1..Len(found) :
                                                         r.resource_id = found[i].resource_id})
        /\ call' = Leave(x)
        /\ UNCHANGED <<nextId, entityVars, defaultVars, chatVars>>

\* repos.py 167-169: the second read, on the resources database: the Resource
\* rows whose resource_id is that of collection_resources[0], as they are
\* stored now; with no association row the index raises.
select_resources_of_first_association ==
    \E x \in InFlight :
        /\ x.step = "select"
        /\ LET found == x.collection_resources
           IN  IF found = <<>>
               THEN ret' = Raises("get_resources_by_collection_id", "IndexError")
               ELSE ret' = Returns("get_resources_by_collection_id", TRUE,
                                   {r \in resources : r.resource_id = found[1].resource_id})
        /\ call' = Leave(x)
        /\ UNCHANGED <<nextId, entityVars, defaultVars, chatVars>>

\* ------------------------------------------------------------------ FileRepo
\* A File built without file_id=...: the column's default_factory draws one.
create_file_with_default_id(organization, resource, file_name, mime_type, user) ==
    LET obj == File(organization.organization_id, resource.resource_id, uuid4,
                    file_name, <<"files", resource.source_entity_id>>, mime_type, user.user_id)
        res == _commit_object(files, obj)
    IN  /\ files' = res.rows
        /\ nextId' = nextId + 1
        /\ AfterCommit("create_file_for_resource", res.ok, obj)
        /\ UNCHANGED <<resources, collection_resources, meetings, meeting_recordings,
                       websites, defaultVars, chatVars>>

\* repos.py 194-207.  path is f"files/{source_entity_id}".
create_file_for_resource(organization, resource, file_name, mime_type, user) ==
    LET obj == File(organization.organization_id, resource.resource_id,
                    resource.source_entity_id, file_name,
                    <<"files", resource.source_entity_id>>, mime_type, user.user_id)
        res == _commit_object(files, obj)
    IN  /\ files' = res.rows
        /\ AfterCommit("create_file_for_resource", res.ok, obj)
        /\ UNCHANGED <<nextId, resources, collection_resources, meetings, meeting_recordings,
                       websites, defaultVars, chatVars>>

\* repos.py 209-227.  resource_id and file_id are both the recording's file_id;
\* path is f"meetings/{file_id}".
create_file_for_meeting_recording(organization, meeting_recording, file_name, mime_type, user) ==
    LET obj == File(organization.organization_id, meeting_recording.file_id,
                    meeting_recording.file_id, file_name,
                    <<"meetings", meeting_recording.file_id>>, mime_type, user.user_id)
        res == _commit_object(files, obj)
    IN  /\ files' = res.rows
        /\ AfterCommit("create_file_for_meeting_recording", res.ok, obj)
        /\ UNCHANGED <<nextId, resources, collection_resources, meetings, meeting_recordings,
                       websites, defaultVars, chatVars>>

\* ------------------------------------------------------------------ MeetingRepo
\* repos.py 236-244
create_meeting(organization, resource, user) ==
    LET obj == Meeting(organization.organization_id, resource.resource_id, user.user_id,
                       resource.source_entity_id)
        res == _commit_object(meetings, obj)
    IN  /\ meetings' = res.rows
        /\ AfterCommit("create_meeting", res.ok, obj)
        /\ UNCHANGED <<nextId, resources, collection_resources, files, meeting_recordings,
                       websites, defaultVars, chatVars>>

\* repos.py 246-257: recording_id is drawn by the column's default_factory.
create_meeting_mixed_recording(organization_id, meeting_id, file_id) ==
    LET obj == MeetingRecording(organization_id, meeting_id, uuid4, file_id, "audio", "mixed")
        res == _commit_object(meeting_recordings, obj)
    IN  /\ meeting_recordings' = res.rows
        /\ nextId' = nextId + 1
        /\ AfterCommit("create_meeting_mixed_recording", res.ok, obj)
        /\ UNCHANGED <<resources, collection_resources, files, meetings, websites,
                       defaultVars, chatVars>>

\* An update of the meeting that also writes the transcription to the
\* meeting's recordings, as one joint transaction would.
update_meeting_and_recordings_transcriptions(meeting_id, transcriptions) ==
    \E found \in First({m \in meetings : m.meeting_id = meeting_id}) :
        /\ IF found = {}
           THEN /\ ret' = Raises("update_meeting_transcriptions", "AttributeError")
                /\ UNCHANGED <<meetings, meeting_recordings>>
           ELSE /\ meetings' = (meetings \ found) \cup
                               {[m EXCEPT !.transcriptions = transcriptions] : m \in found}
                /\ meeting_recordings' =
                       {IF r.meeting_id = meeting_id
                        THEN [r EXCEPT !.transcriptions = transcriptions] ELSE r :
                           r \in meeting_recordings}
                /\ ret' = Returns("update_meeting_transcriptions", TRUE,
                                  {Expired(m) : m \in found})
        /\ UNCHANGED <<nextId, call, resources, collection_resources, files, websites,
                       defaultVars, chatVars>>

\* repos.py 271-279: the first Meeting with the meeting_id, in a session of
\* its own; with no such row the assignment on None raises.
update_meeting_transcriptions(meeting_id, transcriptions) ==
    \E found \in First({m \in meetings : m.meeting_id = meeting_id}) :
        /\ IF found = {}
           THEN /\ ret' = Raises("update_meeting_transcriptions", "AttributeError")
                /\ UNCHANGED meetings
           ELSE /\ meetings' = (meetings \ found) \cup
                               {[m EXCEPT !.transcriptions = transcriptions] : m \in found}
                /\ ret' = Returns("update_meeting_transcriptions", TRUE,
                                  {Expired(m) : m \in found})
        /\ UNCHANGED <<nextId, call, resources, collection_resources, files, meeting_recordings,
                       websites, defaultVars, chatVars>>

\* repos.py 281-289: the first MeetingRecording of the meeting, in a session
\* of its own.
update_meeting_recordings_transcriptions(meeting_id, transcriptions) ==
    \E found \in First({r \in meeting_recordings : r.meeting_id = meeting_id}) :
        /\ IF found = {}
           THEN /\ ret' = Raises("update_meeting_recordings_transcriptions", "AttributeError")
                /\ UNCHANGED meeting_recordings
           ELSE /\ meeting_recordings' = (meeting_recordings \ found) \cup
                               {[r EXCEPT !.transcriptions = transcriptions] : r \in found}
                /\ ret' = Returns("update_meeting_recordings_transcriptions", TRUE,
                                  {Expired(r) : r \in found})
        /\ UNCHANGED <<nextId, call, resources, collection_resources, files, meetings,
                       websites, defaultVars, chatVars>>

\* ------------------------------------------------------------------ WebsiteRepo
\* repos.py 304-314: the name is f"Website {uuid.uuid4()}".
create_website(organization, resource, user, url) ==
    LET obj == Website(organization.organization_id, resource.resource_id, user.user_id,
                       <<"Website", uuid4>>, resource.source_entity_id, url)
        res == _commit_object(websites, obj)
    IN  /\ websites' = res.rows
        /\ nextId' = nextId + 1
        /\ AfterCommit("create_website", res.ok, obj)
        /\ UNCHANGED <<resources, collection_resources, files, meetings, meeting_recordings,
                       defaultVars, chatVars>>

\* repos.py 316-324
update_website_parsed_urls(website_id, parsed_urls) ==
    \E found \in First({w \in websites : w.website_id = website_id}) :
        /\ IF found = {}
           THEN /\ ret' = Raises("update_website_parsed_urls", "AttributeError")
                /\ UNCHANGED websites
           ELSE /\ websites' = (websites \ found) \cup
                               {[w EXCEPT !.parsed_urls = parsed_urls] : w \in found}
                /\ ret' = Returns("update_website_parsed_urls", TRUE,
                                  {Expired(w) : w \in found})
        /\ UNCHANGED <<nextId, call, resources, collection_resources, files, meetings,
                       meeting_recordings, defaultVars, chatVars>>

\* ------------------------------------------------------------------ ChatRepo: chats
\* models.py 145-152
Chat(organization_id, owner_user_id, chat_id, type, name) ==
    [tablename |-> "chats", organization_id |-> organization_id, chat_id |-> chat_id,
     owner_user_id |-> owner_user_id, type |-> type, summary |-> NoneValue, name |-> name]

\* repos.py 339-343
create_chat(organization_id, user_id, type, name) ==
    LET obj == Chat(organization_id, user_id, uuid4, type, name)
        res == _commit_object(chats, obj)
    IN  /\ chats' = res.rows
        /\ nextId' = nextId + 1
        /\ AfterCommit("create_chat", res.ok, obj)
        /\ UNCHANGED <<chat_resources, chat_messages, clock, defaultVars, entityVars>>

\* repos.py 345-353
update_chat_name(chat_id, name) ==
    \E found \in First({c \in chats : c.chat_id = chat_id}) :
        /\ IF found = {}
           THEN /\ ret' = Raises("update_chat_name", "AttributeError")
                /\ UNCHANGED chats
           ELSE /\ chats' = (chats \ found) \cup {[c EXCEPT !.name = name] : c \in found}
                /\ ret' = Returns("update_chat_name", TRUE,
                                  {Expired(c) : c \in found})
        /\ UNCHANGED <<nextId, call, chat_resources, chat_messages, clock, defaultVars, entityVars>>

\* ------------------------------------------------------------------ callers' arguments
\* The Organization objects a caller passes (any identity it holds) and the
\* User object (one user: user_id is copied into the row and never compared).
OrganizationArgs == {Organization(o, "Default AI service org 2") : o \in Ids}
UserArgs == {User(1, "Default AI", "service user 2")}
FileNames == {"a.txt"}
MimeTypes == {"text/plain"}
Urls == {"https://example.com"}
Summaries == {"summary"}

\* The resource_id and chat_id values a caller can pass: any id no row
\* carries (Ids) and the id of any stored row, that of a row whose create_*
\* call has committed and not yet returned included.
ResourceIds == {r.resource_id : r \in resources}
StoredChatIds == {c.chat_id : c \in chats}

\* Resources and their status and summary updates.  One source_entity_type
\* and one source_entity_id are enough here: the columns are stored and
\* never read.
NextResource ==
    \/ \E o \in Ids, t \in {"file"}, e \in {1} :
          Cardinality(resources) < MaxResources /\ create_resource(o, t, e)
    \/ _commit_object_refresh
    \/ \E id \in ResourceIds \cup Ids, s \in ResourceStatus : update_resource_status(id, s)
    \/ \E id \in ResourceIds \cup Ids, a \in Summaries : update_resource_ai_summary(id, a)

\* The rows of the Resources shard and of the shards that refer to it.
Rows ==
    Cardinality(resources) + Cardinality(collection_resources) + Cardinality(files)
        + Cardinality(meetings) + Cardinality(meeting_recordings) + Cardinality(websites)
Bounded == Rows <= MaxRows /\ nextId <= MaxRows

\* Resources and the concrete entity of each: file, meeting or website.  The
\* create_* methods read resource_id and source_entity_id of the Resource they
\* are given and nothing else, and copy the organization's id into the row, so
\* one organization and one type are enough here; NextFile below passes every
\* organization to the file methods.
EntityBounded ==
    /\ Cardinality(resources) <= MaxResources
    /\ Cardinality(files) + Cardinality(meetings) + Cardinality(websites) <= MaxRows
    /\ nextId <= MaxRows

NextEntity ==
    \/ \E o \in {1}, t \in {"file"}, e \in Ids :
          create_resource(o, t, e) /\ EntityBounded'
    \/ \E o \in {Organization(1, "Default AI service org 2")}, r \in resources,
          n \in FileNames, m \in MimeTypes, u \in UserArgs : create_file_for_resource(o, r, n, m, u) /\ EntityBounded'
    \/ \E o \in {Organization(1, "Default AI service org 2")}, r \in resources,
          u \in UserArgs : create_meeting(o, r, u) /\ EntityBounded'
    \/ \E o \in {Organization(1, "Default AI service org 2")}, r \in resources,
          u \in UserArgs, url \in Urls : create_website(o, r, u, url) /\ EntityBounded'
    \/ _commit_object_refresh

\* Resources, meeting recordings, the files of both (for any organization),
\* collection associations (of any collection and organization with a stored
\* resource), and the transcription update of a recording, which can fall
\* between the commit and the refresh of the call that creates it.  The
\* resources and the recordings are those of one organization.
NextFile ==
    \/ \E o \in {1}, t \in {"file"}, e \in Ids : create_resource(o, t, e) /\ Bounded'
    \/ \E c \in Ids, o \in Ids, r \in ResourceIds :
          create_collection_resource(c, o, r) /\ Bounded'
    \/ \E o \in OrganizationArgs, r \in resources, n \in FileNames, m \in MimeTypes,
          u \in UserArgs : create_file_for_resource(o, r, n, m, u) /\ Bounded'
    \/ \E o \in OrganizationArgs, mr \in meeting_recordings, n \in FileNames,
          m \in MimeTypes, u \in UserArgs :
          create_file_for_meeting_recording(o, mr, n, m, u) /\ Bounded'
    \/ \E o \in {1}, m \in {1}, f \in Ids :
          create_meeting_mixed_recording(o, m, f) /\ Bounded'
    \/ _commit_object_refresh
    \/ \E t \in {"transcript"} : update_meeting_recordings_transcriptions(1, t)

\* Collections: resources, the associations of collection 1 with stored
\* resources and of collection 2 with a resource_id no Resource carries, and
\* the lookup by collection, whose two reads other calls can fall between.
\* One organization and one source entity are enough: neither query reads
\* organization_id or source_entity_id.
CollectionBounded ==
    /\ Cardinality(resources) <= MaxResources
    /\ Cardinality(collection_resources) <= MaxRows
    /\ nextId <= MaxRows

NextCollection ==
    \/ create_resource(1, "file", 1) /\ CollectionBounded'
    \/ \E r \in ResourceIds : create_collection_resource(1, 1, r) /\ CollectionBounded'
    \/ create_collection_resource(2, 1, 1) /\ CollectionBounded'
    \/ _commit_object_refresh
    \/ \E c \in Ids : get_resources_by_collection_id(c)
    \/ select_resources_of_first_association
    \/ \E id \in ResourceIds, st \in {"available"} : update_resource_status(id, st)

\* The lookup-by-id updates of every repository, on the rows the create_*
\* methods stored and on ids that no row carries.
Transcriptions == {"transcript"}
ParsedUrls == {"https://example.com/a"}

UpdateBounded == Rows + Cardinality(chats) <= MaxRows /\ nextId <= MaxRows

NextUpdate ==
    \/ \E e \in Ids : create_resource(1, "meeting", e) /\ UpdateBounded'
    \/ \E o \in OrganizationArgs, r \in resources, u \in UserArgs :
          create_meeting(o, r, u) /\ UpdateBounded'
    \/ \E m \in Ids : create_meeting_mixed_recording(1, m, 1) /\ UpdateBounded'
    \/ \E o \in {Organization(1, "Default AI service org 2")}, r \in resources,
          u \in UserArgs, url \in Urls : create_website(o, r, u, url) /\ UpdateBounded'
    \/ create_chat(1, 1, "chat", "chat") /\ UpdateBounded'
    \/ _commit_object_refresh
    \/ \E id \in ResourceIds \cup Ids, st \in {"available"} : update_resource_status(id, st)
    \/ \E id \in ResourceIds \cup Ids, a \in Summaries : update_resource_ai_summary(id, a)
    \/ \E id \in Ids, t \in Transcriptions : update_meeting_transcriptions(id, t)
    \/ \E id \in Ids, t \in Transcriptions : update_meeting_recordings_transcriptions(id, t)
    \/ \E id \in Ids, u \in ParsedUrls : update_website_parsed_urls(id, u)
    \/ \E id \in StoredChatIds \cup Ids, n \in {"renamed"} :
          update_chat_name(id, n)

\* Meetings, their recordings, and the transcription updates of both, on
\* meeting ids with and without rows.
MeetingBounded == Rows <= MaxRows /\ nextId <= MaxRows

NextMeeting ==
    \/ \E e \in Ids : create_resource(1, "meeting", e) /\ MeetingBounded'
    \/ \E o \in OrganizationArgs, r \in resources, u \in UserArgs :
          create_meeting(o, r, u) /\ MeetingBounded'
    \/ \E m \in Ids : create_meeting_mixed_recording(1, m, 1) /\ MeetingBounded'
    \/ _commit_object_refresh
    \/ \E id \in Ids, t \in Transcriptions : update_meeting_transcriptions(id, t)
    \/ \E id \in Ids, t \in Transcriptions : update_meeting_recordings_transcriptions(id, t)

\* ------------------------------------------------------------------ ChatRepo
NoId == 0            \* message_id=None, owner_user_id=None
MessageLimit == 40   \* .limit(40)

ChatResource(organization_id, chat_id, resource_id) ==
    [tablename |-> "chat_resources", organization_id |-> organization_id,
     chat_id |-> chat_id, resource_id |-> resource_id]

\* created_at is BaseTable's default_factory=datetime.now, read when the
\* object is built.  A dict is the set of its <<key, value>> pairs.
ChatMessage(organization_id, chat_id, message_id, user_id, type, content, arguments) ==
    [tablename |-> "chat_messages", organization_id |-> organization_id,
     chat_id |-> chat_id, message_id |-> message_id, user_id |-> user_id, type |-> type,
     content |-> content, arguments |-> arguments, created_at |-> clock]

\* repos.py 355-360
add_resource_to_chat(organization_id, chat_id, resource_id) ==
    LET obj == ChatResource(organization_id, chat_id, resource_id)
        res == _commit_object(chat_resources, obj)
    IN  /\ chat_resources' = res.rows
        /\ AfterCommit("add_resource_to_chat", res.ok, obj)
        /\ UNCHANGED <<nextId, chats, chat_messages, clock, defaultVars, entityVars>>

\* repos.py 369-373: all rows of the chat (their order is not specified).
get_chat_resources(chat_id) == {r \in chat_resources : r.chat_id = chat_id}

\* repos.py 381-401: the ChatMessage object is built.  "message_id or
\* uuid.uuid4()" draws only when no message_id is given; "arguments if
\* arguments else {}" maps None and the empty dict to the empty dict;
\* created_at is the time now.  Time may pass before the next step of any
\* call (tick), the commit of this object included.
create_chat_message(organization_id, chat_id, type, content, message_id, owner_user_id, arguments, tick) ==
    LET id == IF message_id # NoId THEN message_id ELSE uuid4
        obj == ChatMessage(organization_id, chat_id, id, owner_user_id, type, content,
                           IF arguments # {} THEN arguments ELSE {})
    IN  /\ CallerFree
        /\ call' = Enter([op |-> "create_chat_message", step |-> "commit", obj |-> obj])
        /\ nextId' = IF message_id # NoId THEN nextId ELSE nextId + 1
        /\ clock' = clock + tick
        /\ UNCHANGED <<ret, chats, chat_resources, chat_messages, defaultVars, entityVars>>

\* repos.py 402 with 47-49: the commit of a message built before.  A failed
\* commit raises; after a successful one the call goes on to the refresh.
create_chat_message_commit ==
    \E x \in InFlight :
        /\ x.op = "create_chat_message" /\ x.step = "commit"
        /\ LET res == _commit_object(chat_messages, x.obj)
           IN  /\ chat_messages' = res.rows
               /\ IF res.ok
                  THEN /\ call' = Leave(x) (+) SetToBag({[x EXCEPT !.step = "refresh"]})
                       /\ ret' = ret
                  ELSE /\ call' = Leave(x)
                       /\ ret' = Returns("create_chat_message", FALSE, {})
        /\ UNCHANGED <<nextId, chats, chat_resources, clock, defaultVars, entityVars>>

\* The rows created at t or before, newest first.
RECURSIVE CreatedAtOrBefore(_, _)
CreatedAtOrBefore(rows, t) ==
    IF t < 0 THEN {<<>>}
    ELSE {same \o older : same \in AnyOrder({m \in rows : m.created_at = t}),
                          older \in CreatedAtOrBefore(rows, t - 1)}

\* The orders ORDER BY created_at DESC can give the rows: rows with the same
\* created_at come in any order.
OrderByCreatedAtDesc(rows) ==
    IF rows = {} THEN {<<>>}
    ELSE LET times == {m.created_at : m \in rows}
         IN  CreatedAtOrBefore(rows, CHOOSE t \in times : \A u \in times : u <= t)

Limit(seq, n) == SubSeq(seq, 1, IF Len(seq) < n THEN Len(seq) ELSE n)
Reversed(seq) == [i \in 1..Len(seq) |-> seq[Len(seq) + 1 - i]]

\* The oldest 40 instead of the newest: ORDER BY created_at ASC LIMIT 40.
get_chat_messages_oldest(chat_id) ==
    {Limit(Reversed(s), MessageLimit) :
        s \in OrderByCreatedAtDesc({m \in chat_messages : m.chat_id = chat_id})}

\* repos.py 404-414: every result the call can return.
get_chat_messages(chat_id) ==
    {Reversed(Limit(s, MessageLimit)) :
        s \in OrderByCreatedAtDesc({m \in chat_messages : m.chat_id = chat_id})}

ChatIds == {1, 2}
MessageTypes == {"user"}
Contents == {"hello"}

\* Attaching resources to chats.
NextChatResource ==
    \/ \E o \in Ids, c \in ChatIds, r \in Ids :
          add_resource_to_chat(o, c, r) /\ Cardinality(chat_resources') <= MaxChatResources
    \/ _commit_object_refresh

\* What sets a message apart from the usual one (chat 1, a later created_at
\* than every message before it).
Irregular(table, now) ==
    Cardinality({m \in table : m.chat_id # 1})
      + (Cardinality(table) - Cardinality({m.created_at : m \in table}))
      + (IF \E m \in table : m.created_at = now THEN 1 ELSE 0)

\* The messages stored and those built and not yet stored.
MessagesBuilt ==
    chat_messages \cup {x.obj : x \in {y \in InFlight : y.op = "create_chat_message"}}

\* How far the calls in flight depart from one call after the other: the
\* calls in flight but one, or the pairs of a message in flight and a stored
\* message built after it, whichever is more.
Overlapping ==
    LET ahead == IF call = EmptyBag THEN 0 ELSE BagCardinality(call) - 1
        late == Cardinality({<<x, m>> \in InFlight \X chat_messages :
                                m.created_at > x.obj.created_at})
    IN  IF ahead > late THEN ahead ELSE late

\* Appending messages with generated message_ids, in calls that overlap: at
\* most MaxMessages, of which at most MaxIrregular depart from the usual one
\* or from one call after the other; the clock is never more than one ahead
\* of the newest message: longer gaps between created_at values change no
\* order.  A message of another chat is older than every message of chat 1
\* or newer than MessageLimit of them: before the rows the query reads or
\* among the rows it limits.
MessagesBounded ==
    /\ Cardinality(MessagesBuilt) <= MaxMessages
    /\ Irregular(MessagesBuilt, clock) + Overlapping <= MaxIrregular
    /\ clock = 0 \/ \E m \in MessagesBuilt : m.created_at + 1 >= clock
    /\ \A m \in MessagesBuilt : m.chat_id # 1 =>
          LET before == {o \in MessagesBuilt : o.chat_id = 1 /\ o.created_at < m.created_at}
          IN  before = {} \/ Cardinality(before) >= MessageLimit

NextMessage ==
    \/ \E c \in ChatIds, t \in MessageTypes, text \in Contents, id \in {NoId}, tick \in {0, 1} :
          create_chat_message(1, c, t, text, id, NoId, {}, tick) /\ MessagesBounded'
    \/ create_chat_message_commit /\ MessagesBounded'
    \/ _commit_object_refresh

\* ------------------------------------------------------------------ specifications
NoReturn == [op |-> "none", ok |-> TRUE, val |-> {}]

Init ==
    /\ nextId = 0
    /\ ret = NoReturn
    /\ call = EmptyBag
    /\ InitDefault
    /\ resources = {}
    /\ collection_resources = {}
    /\ files = {}
    /\ meetings = {}
    /\ meeting_recordings = {}
    /\ websites = {}
    /\ chats = {}
    /\ chat_resources = {}
    /\ chat_messages = {}
    /\ clock = 0

\* Concurrent callers of the two get-or-create methods.
SpecGetOrCreate == Init /\ [][NextDefault]_vars

\* The same callers, one call at a time.
SpecSequential == Init /\ [][NextSequential]_vars

\* The Resources shard alone.
SpecResource == Init /\ [][NextResource]_vars

\* Resources and their concrete entities.
SpecEntity == Init /\ [][NextEntity]_vars

\* Resources, recordings, files and collection associations.
SpecFile == Init /\ [][NextFile]_vars

\* Collections and the resources associated with them.
SpecCollection == Init /\ [][NextCollection]_vars

\* Meetings, recordings and their transcriptions.
SpecMeeting == Init /\ [][NextMeeting]_vars

\* Every repository's lookup-by-id updates.
SpecUpdate == Init /\ [][NextUpdate]_vars

\* The chat_resources table.
SpecChatResource == Init /\ [][NextChatResource]_vars

\* The chat_messages table.
SpecMessage == Init /\ [][NextMessage]_vars

\* ================================================================== claims

\* The rows that carry the sentinel names, counted by the names themselves.
DefaultUserRows ==
    {r \in users : r.first_name = "Default AI" /\ r.last_name = "service user 2"}
DefaultOrganizationRows ==
    {r \in organizations : r.name = "Default AI service org 2"}

ReturnsOf(op) == {i \in 1..Len(returned) : returned[i].op = op}

\* The calls that took, in this step, a step they had not taken before, and
\* the calls that left, in this step, the step they were at.
Began == {x \in BagToSet(call') : CopiesIn(x, call') > CopiesIn(x, call)}
Ended == {x \in BagToSet(call) : CopiesIn(x, call) > CopiesIn(x, call')}

\* C1: when the get-or-create calls run one after the other, every call of
\* get_default_user returns the same user_id and every call of
\* get_default_organization the same organization_id, and once a call has
\* returned there is exactly one sentinel row of each table it touched (the
\* organization call touches both).
C1_SequentialGetOrCreateIdempotent ==
    /\ \A i, j \in 1..Len(returned) :
          returned[i].op = returned[j].op => returned[i].id = returned[j].id
    /\ Cardinality(DefaultUserRows) <= 1
    /\ Cardinality(DefaultOrganizationRows) <= 1
    /\ returned # <<>> => Cardinality(DefaultUserRows) = 1
    /\ ReturnsOf("organization") # {} => Cardinality(DefaultOrganizationRows) = 1
    /\ \A i \in ReturnsOf("user") : \E r \in DefaultUserRows : r.user_id = returned[i].id
    /\ \A i \in ReturnsOf("organization") :
          \E r \in DefaultOrganizationRows : r.organization_id = returned[i].id

\* Two calls of each method have returned, one after the other.
C1_Witness ==
    /\ Cardinality(ReturnsOf("user")) >= 2
    /\ Cardinality(ReturnsOf("organization")) >= 2
    /\ NoCallInProgress

\* A caller whose SELECT of the table found nothing and whose INSERT has
\* stored a row (the membership INSERT can fail and then stores none).
Created(p, t) == t \in loc[p].missed /\ pc[p] # t \o "_commit" /\ loc[p][t] # {}

\* C2: two callers that both saw "not found" and both committed have stored
\* two different sentinel rows, and both rows are in the table: nothing
\* prevents the second INSERT and nothing removes a duplicate afterwards.
C2_BothCreatorsLeaveTwoRows ==
    \A p, q \in Callers :
        p # q =>
        /\ Created(p, "user") /\ Created(q, "user") =>
              /\ loc[p].user # loc[q].user
              /\ loc[p].user \cup loc[q].user \subseteq DefaultUserRows
              /\ Cardinality(DefaultUserRows) >= 2
        /\ Created(p, "organization") /\ Created(q, "organization") =>
              /\ loc[p].organization # loc[q].organization
              /\ loc[p].organization \cup loc[q].organization \subseteq DefaultOrganizationRows
              /\ Cardinality(DefaultOrganizationRows) >= 2

\* Both callers created a user and an organization: two sentinel rows of each.
C2_Witness ==
    /\ \E p, q \in Callers :
          /\ p # q
          /\ Created(p, "user") /\ Created(q, "user")
          /\ Created(p, "organization") /\ Created(q, "organization")
    /\ Cardinality(DefaultUserRows) = 2
    /\ Cardinality(DefaultOrganizationRows) = 2

\* C3: a get_default_organization call that returns organization O with
\* default user U leaves a membership row (O, U), and no pair has two rows.
C3_ReturnedOrganizationHasMembership ==
    /\ \A p \in Callers :
          pc[p] = "return" /\ loc[p].op = "organization" =>
              \A o \in loc[p].organization : \A u \in loc[p].user :
                  \E m \in organization_users :
                      /\ m.organization_id = o.organization_id
                      /\ m.user_id = u.user_id
    /\ \A m1, m2 \in organization_users :
          PrimaryKey(m1) = PrimaryKey(m2) => m1 = m2

\* The parts of C4 that concern update_resource_status: a committed
\* update_resource_status(id, s) makes get_resource(id) return status s and
\* leaves every other resource as it was; and the status get_resource returns
\* for a resource changes in no step other than an update_resource_status of
\* that resource.
C4_UpdateStep ==
    /\ \A id \in ResourceIds : \A s \in ResourceStatus :
          update_resource_status(id, s) =>
              /\ ret'.ok
              /\ \A g \in get_resource(id)' : g # {} /\ \A r \in g : r.status = s
              /\ \A r \in resources : r.resource_id # id => r \in resources'
    /\ \A r \in resources :
          \/ \A g \in get_resource(r.resource_id)' :
                g # {} /\ \A x \in g : x.status = r.status
          \/ \E s \in ResourceStatus : update_resource_status(r.resource_id, s)

\* C4 as the specification states it: every Resource that create_resource
\* returns has status pending, and a committed update_resource_status(id, s)
\* makes get_resource(id) return status s.
C4_ReturnedStep ==
    /\ _commit_object_refresh /\ ret'.op = "create_resource" =>
          /\ Cardinality(ret'.val) = 1
          /\ \A r \in ret'.val :
                r.status = "pending" /\ {r} \in get_resource(r.resource_id)'
    /\ C4_UpdateStep
C4_ReturnedResourceIsPending == [][C4_ReturnedStep]_vars

\* C4, amended: the row create_resource commits has status pending, and the
\* Resource it returns is the row stored under its resource_id when the call
\* reads it back after the commit; since the status of a stored resource
\* changes only in an update_resource_status of that resource, the returned
\* status is pending unless such an update committed between the call's
\* commit and its refresh, and is then the status of the last such update.
\* A committed update_resource_status(id, s) makes get_resource(id) return
\* status s and leaves every other resource as it was.
C4_Step ==
    /\ \A x \in Began :
          x.op = "create_resource" =>
             /\ x.obj.status = "pending"
             /\ {x.obj} \in get_resource(x.obj.resource_id)'
    /\ \A x \in Ended :
          x.op = "create_resource" =>
             /\ ret'.op = "create_resource" /\ ret'.ok
             /\ Cardinality(ret'.val) = 1
             /\ \A r \in ret'.val :
                   /\ r.resource_id = x.obj.resource_id
                   /\ {r} \in get_resource(r.resource_id)'
                   /\ \A g \in get_resource(r.resource_id) : g = {r}
    /\ C4_UpdateStep
C4_StatusRoundTrip == [][C4_Step]_vars

\* create_resource has just returned a Resource that is available: an
\* update_resource_status of the new row committed between the call's commit
\* and its refresh, and get_resource returns the same row.
C4_Witness ==
    /\ ret.op = "create_resource" /\ ret.ok
    /\ \E r \in ret.val : r.status = "available" /\ {r} \in get_resource(r.resource_id)

\* C5: once a resource is available or failed its status never changes
\* again, and no resource goes back to pending.
C5_Step ==
    \A r \in resources : \A x \in resources' :
        x.resource_id = r.resource_id =>
            /\ r.status \in {"available", "failed"} => x.status = r.status
            /\ r.status # "pending" => x.status # "pending"
C5_TerminalStatusesStay == [][C5_Step]_vars

\* C6: a concrete entity stored for resource R carries R's source_entity_id
\* as its own identity and R's resource_id as its back-reference, storing it
\* leaves the resources table as it was, and the entity the call returns is
\* a stored one bound to a stored resource in that way.
C6_Step ==
    /\ \A o \in OrganizationArgs, r \in resources, n \in FileNames, m \in MimeTypes,
          u \in UserArgs :
          create_file_for_resource(o, r, n, m, u) /\ call' # call =>
              /\ \E f \in files' :
                    /\ f \notin files /\ files' = files \cup {f}
                    /\ f.file_id = r.source_entity_id
                    /\ f.resource_id = r.resource_id
              /\ resources' = resources
    /\ \A o \in OrganizationArgs, r \in resources, u \in UserArgs :
          create_meeting(o, r, u) /\ call' # call =>
              /\ \E f \in meetings' :
                    /\ f \notin meetings /\ meetings' = meetings \cup {f}
                    /\ f.meeting_id = r.source_entity_id
                    /\ f.resource_id = r.resource_id
              /\ resources' = resources
    /\ \A o \in OrganizationArgs, r \in resources, u \in UserArgs, url \in Urls :
          create_website(o, r, u, url) /\ call' # call =>
              /\ \E f \in websites' :
                    /\ f \notin websites /\ websites' = websites \cup {f}
                    /\ f.website_id = r.source_entity_id
                    /\ f.resource_id = r.resource_id
              /\ resources' = resources
    /\ _commit_object_refresh =>
          /\ resources' = resources
          /\ \A f \in ret'.val :
                /\ ret'.op = "create_file_for_resource" =>
                      f \in files /\ \E r \in resources :
                          f.file_id = r.source_entity_id /\ f.resource_id = r.resource_id
                /\ ret'.op = "create_meeting" =>
                      f \in meetings /\ \E r \in resources :
                          f.meeting_id = r.source_entity_id /\ f.resource_id = r.resource_id
                /\ ret'.op = "create_website" =>
                      f \in websites /\ \E r \in resources :
                          f.website_id = r.source_entity_id /\ f.resource_id = r.resource_id
C6_ConcreteEntityBinding == [][C6_Step]_vars

\* A file and a meeting are stored and a website has just been stored, each
\* bound to a stored resource.
C6_Witness ==
    /\ ret.op = "create_website" /\ ret.ok
    /\ \E w \in websites : \E r \in resources :
          w.website_id = r.source_entity_id /\ w.resource_id = r.resource_id
    /\ \E f \in files : \E r \in resources :
          f.file_id = r.source_entity_id /\ f.resource_id = r.resource_id
    /\ \E m \in meetings : \E r \in resources :
          m.meeting_id = r.source_entity_id /\ m.resource_id = r.resource_id

\* C7: every File row belongs to exactly one Resource: some Resource row has
\* the file's resource_id and names the file as its source entity, and no
\* other Resource names the same file.
C7_EveryFileOwnedByOneResource ==
    \A f \in files :
        /\ \E r \in resources :
              r.resource_id = f.resource_id /\ r.source_entity_id = f.file_id
        /\ Cardinality({r \in resources : r.source_entity_id = f.file_id}) = 1

\* C10: a create_* call whose commit fails raises and leaves every table of
\* every shard as it was; one whose commit succeeds has added exactly its one
\* object, whole, to its table and changed no other table, and it returns the
\* row stored under that object's key when the call reads it back.
C10_Step ==
    \A op \in CreateOps :
        /\ \A x \in Began :
              x.op = op /\ x.step = "refresh" =>
                 /\ x.obj \notin TableOf(op)
                 /\ TableOf(op)' = TableOf(op) \cup {x.obj}
                 /\ \A i \in 1..Len(AllTables) :
                       \/ AllTables'[i] = AllTables[i]
                       \/ AllTables[i] = TableOf(op) /\ AllTables'[i] = TableOf(op)'
        /\ \A x \in Ended :
              x.op = op /\ x.step = "refresh" =>
                 /\ ret'.op = op /\ ret'.ok
                 /\ Cardinality(ret'.val) = 1
                 /\ \A r \in ret'.val : r \in TableOf(op) /\ PrimaryKey(r) = PrimaryKey(x.obj)
                 /\ AllTables' = AllTables
        /\ call' = call /\ ret'.op = op =>
              /\ ~ret'.ok /\ ret'.val = {}
              /\ AllTables' = AllTables
        /\ \A x \in Ended :
              x.op = op /\ x.step = "commit" /\ Began = {} =>
                 /\ ret'.op = op /\ ~ret'.ok /\ ret'.val = {}
                 /\ AllTables' = AllTables
C10_CommitIsAtomic == [][C10_Step]_vars

\* A create_file_for_resource has just failed on the key of a stored file
\* whose other columns differ from the ones the failed call asked for.
C10_Witness ==
    /\ ret.op = "create_file_for_resource" /\ ~ret.ok
    /\ \E f \in files : \E r \in resources :
          r.source_entity_id = f.file_id /\ r.resource_id # f.resource_id

\* C8: whatever get_chat_messages(chat) returns holds only messages of the
\* chat, each once; holds min(n, 40) of the n messages of the chat; is in
\* ascending order of created_at; and leaves out no message newer than one
\* it holds.
C8_NewestFortyAscending ==
    \A c \in ChatIds :
        LET inChat == {m \in chat_messages : m.chat_id = c}
            n == Cardinality(inChat)
        IN  \A out \in get_chat_messages(c) :
                LET got == {out[i] : i \in 1..Len(out)}
                IN  /\ got \subseteq inChat
                    /\ Cardinality(got) = Len(out)
                    /\ Len(out) = IF n < 40 THEN n ELSE 40
                    /\ \A i \in 1..Len(out) - 1 : out[i].created_at <= out[i + 1].created_at
                    /\ \A m \in inChat \ got : \A g \in got : m.created_at <= g.created_at

\* Chat 1 holds more than 40 messages, so some are left out.
C8_Witness ==
    /\ Cardinality({m \in chat_messages : m.chat_id = 1}) > 40
    /\ \E out \in get_chat_messages(1) :
          Len(out) = 40 /\ \E m \in chat_messages : \A i \in 1..40 : out[i] # m

\* C9: once a (chat_id, resource_id) pair has been attached, the rows
\* get_chat_resources(chat) returns hold exactly one row for the pair.
C9_OneRowPerChatAndResource ==
    \A x \in chat_resources :
        Cardinality({y \in get_chat_resources(x.chat_id) : y.resource_id = x.resource_id}) = 1

\* C11: a lookup-by-id update called with an id that no row of its table
\* carries raises NotFoundError, and neither adds nor changes a row of any
\* table.
UpdateOps ==
    {"update_resource_status", "update_resource_ai_summary", "update_chat_name",
     "update_meeting_transcriptions", "update_meeting_recordings_transcriptions",
     "update_website_parsed_urls"}

C11_Step ==
    (ret' # ret /\ ret'.op \in UpdateOps /\ ~ret'.ok)
        => /\ ret'.error = "NotFoundError"
           /\ AllTables' = AllTables

C11_MissingIdRaisesNotFound == [][C11_Step]_vars

\* C12: get_resources_by_collection_id(c), for a collection that had at
\* least one association row when the call read them, returns the Resource
\* rows whose resource_id is that of one association row of c (the first the
\* query gave), which is at most one Resource however many rows the
\* collection has; and neither of its reads changes a row of any table.
C12_Step ==
    /\ \A c \in Ids : get_resources_by_collection_id(c) => AllTables' = AllTables
    /\ select_resources_of_first_association =>
          /\ AllTables' = AllTables
          /\ \A x \in Ended :
                x.collection_resources # <<>> =>
                   /\ ret'.ok
                   /\ Cardinality(ret'.val) <= 1
                   /\ \E cr \in collection_resources :
                         /\ cr.collection_id = x.collection_id
                         /\ ret'.val = {r \in resources : r.resource_id = cr.resource_id}

C12_ResolvesFirstAssociationOnly == [][C12_Step]_vars

\* The lookup returned one Resource for a collection that two stored
\* Resources are associated with.
C12_Witness ==
    /\ ret.op = "get_resources_by_collection_id"
    /\ ret.ok
    /\ Cardinality(ret.val) = 1
    /\ \E c \in Ids :
          /\ ret.val \subseteq {r \in resources : \E cr \in collection_resources :
                                   cr.collection_id = c /\ cr.resource_id = r.resource_id}
          /\ Cardinality({r \in resources : \E cr \in collection_resources :
                             cr.collection_id = c /\ cr.resource_id = r.resource_id}) >= 2

\* C13: the two transcription updates are separate writes.
\* update_meeting_transcriptions(id, t) stores t on a Meeting with that id
\* whenever one exists, whether or not a recording does, and leaves the
\* meeting_recordings table as it was; update_meeting_recordings_transcriptions
\* (id, t) stores t on a MeetingRecording of that meeting whenever one exists,
\* fails otherwise, and in both cases leaves the meetings table as it was.
C13_Step ==
    \A id \in Ids, t \in Transcriptions :
        /\ update_meeting_transcriptions(id, t) =>
              /\ meeting_recordings' = meeting_recordings
              /\ (\E m \in meetings : m.meeting_id = id) =>
                    /\ ret'.ok
                    /\ \E m \in meetings' : m.meeting_id = id /\ m.transcriptions = t
        /\ update_meeting_recordings_transcriptions(id, t) =>
              /\ meetings' = meetings
              /\ IF \E r \in meeting_recordings : r.meeting_id = id
                 THEN ret'.ok /\ \E r \in meeting_recordings' :
                                    r.meeting_id = id /\ r.transcriptions = t
                 ELSE ~ret'.ok /\ meeting_recordings' = meeting_recordings

C13_TranscriptionWritesAreIndependent == [][C13_Step]_vars

\* A Meeting carries a transcription and a MeetingRecording of it carries none.
C13_Witness ==
    \E m \in meetings, r \in meeting_recordings :
        /\ r.meeting_id = m.meeting_id
        /\ m.transcriptions # NoneValue
        /\ r.transcriptions = NoneValue

====
